---- MODULE Spec2Model ----
(***************************************************************************)
(* State-machine model of the IPCovSmearing module of Delphes              *)
(* (modules/IPCovSmearing.cc): the binned covariance tables built by       *)
(* Init, the bin scan and the eta-bin fallback of getValidBins, and the    *)
(* per-track smearing pipeline of Process.                                 *)
(*                                                                         *)
(* Numbers are fixed-point integers.  Units: pt in GeV, eta in 1/100,      *)
(* phi in quarter turns (pi/2), theta in mrad, displacements in um,        *)
(* cosh(eta) in 1/10.  qoverp and the reconstructed pt are exact           *)
(* rationals [n, d]; d = 0 encodes the IEEE values +inf (n > 0),           *)
(* -inf (n < 0) and NaN (n = 0).                                           *)
(***************************************************************************)
EXTENDS Integers, Sequences, FiniteSets, TLC

VARIABLES
    pc,                  \* position of the module: "new", "ready", "loop",
                         \* "resolving", "smearing", "aborted", "finished"
    file,                \* parametrization source: name -> 5x5 matrix
    smear_mult,          \* configuration value SmearingMultiple
    upstream,            \* the tracks the upstream collaborator can deliver
    ptbins, etabins,     \* bin edge vectors (members filled by Init)
    fCovarianceMatrices, \* ptbin -> (etabin -> covariance matrix)
    fSmearingMatrices,   \* ptbin -> (etabin -> lower Cholesky factor)
    fNBinMisses,         \* bin miss counter
    sout,                \* lines written to the configuration reader's stream
    fInputArray,         \* tracks of the current event
    fItInputArray,       \* iterator position in fInputArray
    fOutputArray,        \* smeared tracks emitted so far
    fRandomGenerator,    \* random source: the normal values it will yield
    track,               \* the track the loop body of Process works on
    request,             \* <<ptbin, etabin>> found by the bin scan
    frame,               \* arguments of the active getValidBins call
    depth,               \* fallback steps taken by the active resolution
    misses0,             \* fNBinMisses when the active resolution started
    delivered,           \* tracks the upstream has delivered so far
    bins,                \* pair returned by getValidBins
    error,               \* what ended the run: "none", "logic_error",
                         \* "assert", "crash"
    jet,                 \* HDF5Writer: the jet candidate being written
    secondary_vertex_tracks  \* HDF5Writer: its sorted secondary tracks

vars == <<pc, file, smear_mult, upstream, ptbins, etabins,
          fCovarianceMatrices, fSmearingMatrices, fNBinMisses, sout,
          fInputArray, fItInputArray, fOutputArray, fRandomGenerator,
          track, request, frame, depth, misses0, delivered, bins, error,
          jet, secondary_vertex_tracks>>

\* the variables of HDF5Writer, which IPCovSmearing never touches
writer == <<jet, secondary_vertex_tracks>>

(***************************************************************************)
(* Bounds of the model.                                                    *)
(***************************************************************************)
MaxTracks == 1   \* tracks the upstream delivers in a run
IntMax == 9      \* largest value of the (narrowed) int of getValidBins
StackLimit == 10 \* recursion depth from which the stack may be exhausted
MaxEdges == 3    \* longest edge sequence of the bin-scan specification
MaxEdgeVal == 4  \* largest edge and scanned value of that specification
MaxRun == 2      \* tracks delivered in a run of several tracks
MaxVertices == 2 \* secondary vertices of a jet

IntMin == -IntMax - 1

(***************************************************************************)
(* Track parameter indices (TrackParam) and 5x5 matrices (CovMatrix).      *)
(***************************************************************************)
D0 == 0
Z0 == 1
PHI == 2
THETA == 3
QOVERP == 4

Idx == 0..4

Range(f) == {f[x] : x \in DOMAIN f}

RECURSIVE SumTo(_, _)
SumTo(f, n) == IF n < 0 THEN 0 ELSE f[n] + SumTo(f, n - 1)

\* a matrix or vector value whose entries are computed once
Dense(f) == f @@ f

\* Eigen product of two 5x5 matrices
MatMul(A, B) ==
    Dense([ij \in Idx \X Idx |->
            SumTo([k \in Idx |-> A[<<ij[1], k>>] * B[<<k, ij[2]>>]], 4)])

\* Eigen product matrix * scalar
MatScale(A, s) == Dense([ij \in Idx \X Idx |-> A[ij] * s])

\* CovMatrix::Identity()
Identity == Dense([ij \in Idx \X Idx |-> IF ij[1] = ij[2] THEN 1 ELSE 0])

Transpose(A) == [ij \in Idx \X Idx |-> A[<<ij[2], ij[1]>>]]

IsSymmetric(A) == \A i \in Idx, j \in Idx : A[<<i, j>>] = A[<<j, i>>]

\* matrix * vector
MatVec(A, v) ==
    Dense([i \in Idx |-> SumTo([k \in Idx |-> A[<<i, k>>] * v[k]], 4)])

\* floor of the square root
RECURSIVE SqrtSearch(_, _, _)
SqrtSearch(x, lo, hi) ==
    IF lo >= hi THEN lo
    ELSE LET mid == (lo + hi + 1) \div 2
         IN  IF mid * mid <= x THEN SqrtSearch(x, mid, hi)
             ELSE SqrtSearch(x, lo, mid - 1)

Sqrt(x) == IF x <= 0 THEN 0 ELSE SqrtSearch(x, 0, IF x < 46340 THEN x ELSE 46340)

Abs(x) == IF x < 0 THEN -x ELSE x

(***************************************************************************)
(* unit conversion and low-pt correction                                   *)
(***************************************************************************)
\* the conversion applied on one side only
convert_units_one_sided(matrix) ==
    LET gev_from_mev ==
            Dense([ij \in Idx \X Idx |->
                     IF ij = <<4, 4>> THEN 1000 ELSE Identity[ij]])
    IN  MatMul(matrix, gev_from_mev)

convert_units_to_gev(matrix) ==
    LET gev_from_mev ==
            Dense([ij \in Idx \X Idx |->
                     IF ij = <<4, 4>> THEN 1000 ELSE Identity[ij]])
    IN  MatMul(MatMul(gev_from_mev, matrix), gev_from_mev)

unct_mul == 2

\* the correction with the z0 entry of the hack matrix left at 1
do_low_pt_hack_d0_only(cov_matrix) ==
    LET hack_matrix ==
            Dense([ij \in Idx \X Idx |->
                     IF ij[1] = ij[2] /\ ij[1] \in {D0} THEN 2
                     ELSE Identity[ij]])
    IN  MatMul(MatMul(hack_matrix, cov_matrix), hack_matrix)

do_low_pt_hack(cov_matrix) ==
    LET hack_matrix ==
            Dense([ij \in Idx \X Idx |->
                     IF ij[1] = ij[2] /\ ij[1] \in {D0, Z0} THEN unct_mul
                     ELSE Identity[ij]])
    IN  MatMul(MatMul(hack_matrix, cov_matrix), hack_matrix)

\* name.Form("covmat_ptbin%.2i_etabin%.2i", ptbin, etabin)
TwoDigits(i) ==
    IF i < 0 THEN <<"-", (-i) \div 10, (-i) % 10>>
    ELSE <<"", i \div 10, i % 10>>

MatrixName(ptbin, etabin) ==
    <<"covmat_ptbin", TwoDigits(ptbin), "_etabin", TwoDigits(etabin)>>

\* get_cov_matrix throws std::invalid_argument when the name is not in the file
GetCovMatrixThrows(f, ptbin, etabin) ==
    LET physbin == IF ptbin = -1 THEN 0 ELSE ptbin
    IN  MatrixName(physbin, etabin) \notin DOMAIN f

get_cov_matrix(f, ptbin, etabin) ==
    LET lowpt_hack == (ptbin = -1)
        physbin == IF ptbin = -1 THEN 0 ELSE ptbin
        covariance == convert_units_to_gev(f[MatrixName(physbin, etabin)])
    IN  IF lowpt_hack THEN do_low_pt_hack(covariance) ELSE covariance

(***************************************************************************)
(* cov.llt().matrixL(): Eigen's in-place unblocked Cholesky factorization  *)
(* of the lower triangle.  It stops at the first pivot x <= 0 and leaves   *)
(* the rest of the matrix as it was; matrixL() is the lower triangular     *)
(* view of whatever the factorization left, successful or not.             *)
(***************************************************************************)
RECURSIVE LltFrom(_, _)
LltFrom(mat, k) ==
    IF k > 4 THEN [m |-> mat, info |-> -1]
    ELSE LET x == mat[<<k, k>>]
                  - SumTo([j \in Idx |->
                              IF j < k THEN mat[<<k, j>>] * mat[<<k, j>>] ELSE 0], 4)
         IN  IF x <= 0 THEN [m |-> mat, info |-> k]
             ELSE LET r == Sqrt(x)
                      upd == Dense([ij \in Idx \X Idx |->
                                IF ij = <<k, k>> THEN r
                                ELSE IF ij[2] = k /\ ij[1] > k
                                THEN (mat[ij]
                                      - SumTo([j \in Idx |->
                                                 IF j < k
                                                 THEN mat[<<ij[1], j>>] * mat[<<k, j>>]
                                                 ELSE 0], 4)) \div r
                                ELSE mat[ij]])
                  IN  LltFrom(upd, k + 1)

LltInfo(cov) == LltFrom(cov, 0).info

LltMatrixL(cov) ==
    LET done == LltFrom(cov, 0).m
    IN  Dense([ij \in Idx \X Idx |-> IF ij[2] <= ij[1] THEN done[ij] ELSE 0])

(***************************************************************************)
(* std::map helpers                                                        *)
(***************************************************************************)
EmptyMap == [x \in {} |-> 0]

Put(m, k, v) == (k :> v) @@ m

\* m[k] of a std::map whose values are maps: creates an empty entry
Touch(m, k) == IF k \in DOMAIN m THEN m ELSE Put(m, k, EmptyMap)

\* m[k1][k2] = v
Put2(m, k1, k2, v) == Put(m, k1, Put(Touch(m, k1)[k1], k2, v))

Has2(m, k1, k2) == k1 \in DOMAIN m /\ k2 \in DOMAIN m[k1]

(***************************************************************************)
(* IPCovSmearing::Init                                                     *)
(***************************************************************************)
ConfiguredPtBins == <<10, 20, 50, 100, 200, 250, 500, 750>>
ConfiguredEtaBins == <<0, 40, 80, 105, 150, 170, 200, 225, 270>>

InfoLine(ipt, ieta) == <<"** INFO: no smearing defined for pt-eta ", ipt, ieta>>

\* the loop body without the check of the pointer GetObject fills: an absent
\* name stores the zero matrix TMatrixDSym(5) starts as
InitBodyUnchecked(st, f, mult) ==
    LET zero == Dense([ij \in Idx \X Idx |-> 0])
        cov == IF GetCovMatrixThrows(f, st.ipt, st.ieta) THEN zero
               ELSE MatScale(get_cov_matrix(f, st.ipt, st.ieta), mult)
    IN  [st EXCEPT !.cov = Put2(st.cov, st.ipt, st.ieta, cov),
                   !.smear = Put2(st.smear, st.ipt, st.ieta, LltMatrixL(cov))]

\* the loop body that keeps the factor only when the factorization succeeded
InitBodyFactorIfPsd(st, f, mult) ==
    IF GetCovMatrixThrows(f, st.ipt, st.ieta)
    THEN [st EXCEPT !.out = Append(st.out, InfoLine(st.ipt, st.ieta))]
    ELSE LET cov == MatScale(get_cov_matrix(f, st.ipt, st.ieta), mult)
         IN  IF LltInfo(cov) = -1
             THEN [st EXCEPT !.cov = Put2(st.cov, st.ipt, st.ieta, cov),
                             !.smear = Put2(st.smear, st.ipt, st.ieta,
                                            LltMatrixL(cov))]
             ELSE [st EXCEPT !.cov = Put2(st.cov, st.ipt, st.ieta, cov)]

\* body of the double loop of Init for the (ipt, ieta) the loop stands at
InitBody(st, f, mult) ==
    IF GetCovMatrixThrows(f, st.ipt, st.ieta)
    THEN [st EXCEPT !.out = Append(st.out, InfoLine(st.ipt, st.ieta))]
    ELSE LET cov == MatScale(get_cov_matrix(f, st.ipt, st.ieta), mult)
         IN  [st EXCEPT !.cov = Put2(st.cov, st.ipt, st.ieta, cov),
                        !.smear = Put2(st.smear, st.ipt, st.ieta,
                                       LltMatrixL(cov))]

\* the inner loop of Init: the eta bins of row st.ipt from st.ieta on
RECURSIVE InitRow(_, _, _, _)
InitRow(st, f, mult, eta_bins_max) ==
    IF st.ieta >= eta_bins_max THEN st
    ELSE InitRow([InitBody(st, f, mult) EXCEPT !.ieta = st.ieta + 1], f, mult,
                 eta_bins_max)

\* the outer loop of Init: the rows from st.ipt on
RECURSIVE InitLoop(_, _, _, _, _)
InitLoop(st, f, mult, pt_bin_max, eta_bins_max) ==
    IF st.ipt >= pt_bin_max THEN st
    ELSE LET row == InitRow([st EXCEPT !.ieta = 0], f, mult, eta_bins_max)
         IN  InitLoop([row EXCEPT !.ipt = row.ipt + 1], f, mult,
                      pt_bin_max, eta_bins_max)

ModuleInit ==
    /\ pc = "new"
    /\ ptbins' = ptbins \o ConfiguredPtBins
    /\ etabins' = etabins \o ConfiguredEtaBins
    /\ LET st == InitLoop([cov |-> fCovarianceMatrices,
                           smear |-> fSmearingMatrices,
                           out |-> sout, ipt |-> -1, ieta |-> 0],
                          file, smear_mult, Len(ptbins'), Len(etabins'))
       IN  /\ fCovarianceMatrices' = st.cov
           /\ fSmearingMatrices' = st.smear
           /\ sout' = st.out
    /\ pc' = "ready"
    /\ UNCHANGED <<writer, file, smear_mult, upstream, fNBinMisses, fInputArray,
                   fItInputArray, fOutputArray, fRandomGenerator, track,
                   request, frame, depth, misses0, delivered, bins, error>>

(***************************************************************************)
(* Exact rationals with the IEEE special values                            *)
(***************************************************************************)
RECURSIVE Gcd(_, _)
Gcd(a, b) == IF b = 0 THEN a ELSE Gcd(b, a % b)

\* n/d in lowest terms with d >= 0
Rat(n, d) ==
    LET g == Gcd(Abs(n), Abs(d))
        s == IF d < 0 THEN -1 ELSE 1
    IN  IF g = 0 THEN [n |-> 0, d |-> 0]
        ELSE [n |-> s * (n \div g), d |-> s * (d \div g)]

RatAdd(a, b) == Rat(a.n * b.d + b.n * a.d, a.d * b.d)

IsNaN(a) == a.n = 0 /\ a.d = 0

\* a >= 0 as IEEE compares it: false for NaN
RatGeZero(a) == ~IsNaN(a) /\ a.n >= 0

RatIsZero(a) == a.n = 0 /\ a.d # 0

RatIsNegative(a) == a.n < 0

(***************************************************************************)
(* Transcendental functions on the grid of the model                       *)
(***************************************************************************)
QUnit == 100000     \* the qoverp entries of the matrices are in 1/QUnit per GeV
NaNEta == 99999     \* -log(tan(theta/2)) outside (0, pi)
PiMrad == 3142

EtaGrid == {-280, -90, -40, 0, 40, 90, 280}

\* 2.*std::atan(std::exp(-eta)) in mrad
ThetaOf(eta) ==
    CASE eta = 0 -> 1571
      [] eta = 40 -> 1181
      [] eta = 90 -> 772
      [] eta = 280 -> 121
      [] eta = -40 -> 1961
      [] eta = -90 -> 2369
      [] eta = -280 -> 3020

\* -std::log(std::tan(theta/2)), to the nearest grid value
EtaOf(theta) ==
    IF theta <= 0 \/ theta >= PiMrad THEN NaNEta
    ELSE CHOOSE e \in EtaGrid :
            \A o \in EtaGrid :
                \/ Abs(ThetaOf(e) - theta) < Abs(ThetaOf(o) - theta)
                \/ /\ Abs(ThetaOf(e) - theta) = Abs(ThetaOf(o) - theta)
                   /\ ThetaOf(e) <= ThetaOf(o)

\* cosh(eta) in tenths
CoshOf(eta) ==
    CASE Abs(eta) = 0 -> 10
      [] Abs(eta) = 40 -> 11
      [] Abs(eta) = 90 -> 14
      [] Abs(eta) = 280 -> 83

\* cosine and sine of a whole number of quarter turns
Cos4(k) == CASE k % 4 = 0 -> 1 [] k % 4 = 1 -> 0 [] k % 4 = 2 -> -1 [] k % 4 = 3 -> 0
Sin4(k) == CASE k % 4 = 0 -> 0 [] k % 4 = 1 -> 1 [] k % 4 = 2 -> 0 [] k % 4 = 3 -> -1

\* the azimuth TLorentzVector reports, in (-pi, pi]
NormPhi(k) == ((k + 1) % 4) - 1

(***************************************************************************)
(* Process: the bin scan                                                   *)
(***************************************************************************)
\* the scan with >= in place of >
RECURSIVE ScanFromInclusive(_, _, _, _)
ScanFromInclusive(edges, x, i, bin) ==
    IF i >= Len(edges) THEN bin
    ELSE ScanFromInclusive(edges, x, i + 1, IF x >= edges[i + 1] THEN i ELSE bin)

RECURSIVE ScanFrom(_, _, _, _)
ScanFrom(edges, x, i, bin) ==
    IF i >= Len(edges) THEN bin
    ELSE ScanFrom(edges, x, i + 1, IF x > edges[i + 1] THEN i ELSE bin)

ScanBins(edges, x) == ScanFrom(edges, x, 0, -1)

PtBinOf(edges, pt) == ScanBins(edges, pt)

EtaBinOf(edges, eta) == ScanBins(edges, Abs(eta))

(***************************************************************************)
(* IPCovSmearing::Process                                                  *)
(***************************************************************************)
\* Process is called for the next event: the iterator is reset
ProcessStart ==
    /\ pc = "ready"
    /\ \E n \in 0..(MaxTracks - delivered) : \E arr \in [1..n -> upstream] :
          /\ fInputArray' = arr
          /\ delivered' = delivered + n
    /\ fItInputArray' = 0
    /\ pc' = "loop"
    /\ UNCHANGED <<writer, file, smear_mult, upstream, ptbins, etabins,
                   fCovarianceMatrices, fSmearingMatrices, fNBinMisses, sout,
                   fOutputArray, fRandomGenerator, track, request, frame,
                   depth, misses0, bins, error>>

\* the iterator is exhausted: Process returns
ProcessReturn ==
    /\ pc = "loop"
    /\ fItInputArray >= Len(fInputArray)
    /\ pc' = "ready"
    /\ UNCHANGED <<writer, file, smear_mult, upstream, ptbins, etabins,
                   fCovarianceMatrices, fSmearingMatrices, fNBinMisses, sout,
                   fInputArray, fItInputArray, fOutputArray, fRandomGenerator,
                   track, request, frame, depth, misses0, delivered, bins, error>>

\* top of the loop body: next track, bin scan, call of getValidBins
LoopNext ==
    /\ pc = "loop"
    /\ fItInputArray < Len(fInputArray)
    /\ LET t == fInputArray[fItInputArray + 1]
           particle == t.Candidates[1]
           ptbin == PtBinOf(ptbins, particle.Momentum.Pt)
           etabin == EtaBinOf(etabins, particle.Momentum.Eta)
       IN  /\ track' = t
           /\ request' = <<ptbin, etabin>>
           /\ frame' = <<ptbin, etabin>>
    /\ fItInputArray' = fItInputArray + 1
    /\ depth' = 0
    /\ misses0' = fNBinMisses
    /\ pc' = "resolving"
    /\ UNCHANGED <<writer, file, smear_mult, upstream, ptbins, etabins,
                   fCovarianceMatrices, fSmearingMatrices, fNBinMisses, sout,
                   fInputArray, fOutputArray, fRandomGenerator, delivered, bins,
                   error>>

(***************************************************************************)
(* IPCovSmearing::getValidBins, one activation per step                    *)
(***************************************************************************)
\* pt_mats.count(etabin), after fSmearingMatrices[ptbin] created the row
HasFactor(m, ptbin, etabin) == Has2(m, ptbin, etabin)

\* the return that counts the activation as a miss
GetValidBinsReturnCounted ==
    /\ pc = "resolving"
    /\ HasFactor(fSmearingMatrices, frame[1], frame[2])
    /\ fSmearingMatrices' = Touch(fSmearingMatrices, frame[1])
    /\ fNBinMisses' = fNBinMisses + 1
    /\ bins' = frame
    /\ pc' = "smearing"
    /\ UNCHANGED <<writer, file, smear_mult, upstream, ptbins, etabins,
                   fCovarianceMatrices, sout, fInputArray,
                   fItInputArray, fOutputArray, fRandomGenerator, track,
                   request, frame, depth, misses0, delivered, error>>

\* the requested bin is cached: return {ptbin, etabin}
GetValidBinsReturn ==
    /\ pc = "resolving"
    /\ HasFactor(fSmearingMatrices, frame[1], frame[2])
    /\ fSmearingMatrices' = Touch(fSmearingMatrices, frame[1])
    /\ bins' = frame
    /\ pc' = "smearing"
    /\ UNCHANGED <<writer, file, smear_mult, upstream, ptbins, etabins,
                   fCovarianceMatrices, fNBinMisses, sout, fInputArray,
                   fItInputArray, fOutputArray, fRandomGenerator, track,
                   request, frame, depth, misses0, delivered, error>>

\* the fallback without its base case: eta bin 0 falls back like the others
GetValidBinsThrowMissing ==
    /\ pc = "resolving"
    /\ ~HasFactor(fSmearingMatrices, frame[1], frame[2])
    /\ frame[2] = 0
    /\ fSmearingMatrices' = Touch(fSmearingMatrices, frame[1])
    /\ fNBinMisses' = fNBinMisses + 1
    /\ frame' = <<frame[1], frame[2] - 1>>
    /\ depth' = depth + 1
    /\ UNCHANGED <<writer, pc, file, smear_mult, upstream, ptbins, etabins,
                   fCovarianceMatrices, sout, fInputArray, fItInputArray,
                   fOutputArray, fRandomGenerator, track, request, misses0,
                   delivered, bins, error>>

\* no factor and etabin == 0: throw std::logic_error
GetValidBinsThrow ==
    /\ pc = "resolving"
    /\ ~HasFactor(fSmearingMatrices, frame[1], frame[2])
    /\ frame[2] = 0
    /\ fSmearingMatrices' = Touch(fSmearingMatrices, frame[1])
    /\ error' = "logic_error"
    /\ pc' = "aborted"
    /\ UNCHANGED <<writer, file, smear_mult, upstream, ptbins, etabins,
                   fCovarianceMatrices, fNBinMisses, sout, fInputArray,
                   fItInputArray, fOutputArray, fRandomGenerator, track,
                   request, frame, depth, misses0, delivered, bins>>

\* the fallback that forgets to count the miss
GetValidBinsFallbackUncounted ==
    /\ pc = "resolving"
    /\ ~HasFactor(fSmearingMatrices, frame[1], frame[2])
    /\ frame[2] # 0
    /\ frame[2] > IntMin
    /\ fSmearingMatrices' = Touch(fSmearingMatrices, frame[1])
    /\ frame' = <<frame[1], frame[2] - 1>>
    /\ depth' = depth + 1
    /\ UNCHANGED <<writer, pc, file, smear_mult, upstream, ptbins, etabins,
                   fCovarianceMatrices, fNBinMisses, sout, fInputArray,
                   fItInputArray, fOutputArray, fRandomGenerator, track,
                   request, misses0, delivered, bins, error>>

\* no factor and etabin != 0: count the miss and retry one eta bin lower
GetValidBinsFallback ==
    /\ pc = "resolving"
    /\ ~HasFactor(fSmearingMatrices, frame[1], frame[2])
    /\ frame[2] # 0
    /\ frame[2] > IntMin
    /\ fSmearingMatrices' = Touch(fSmearingMatrices, frame[1])
    /\ fNBinMisses' = fNBinMisses + 1
    /\ frame' = <<frame[1], frame[2] - 1>>
    /\ depth' = depth + 1
    /\ UNCHANGED <<writer, pc, file, smear_mult, upstream, ptbins, etabins,
                   fCovarianceMatrices, sout, fInputArray, fItInputArray,
                   fOutputArray, fRandomGenerator, track, request, misses0,
                   delivered, bins, error>>

\* etabin - 1 overflows the int (undefined): the build wraps around
GetValidBinsWrap ==
    /\ pc = "resolving"
    /\ ~HasFactor(fSmearingMatrices, frame[1], frame[2])
    /\ frame[2] = IntMin
    /\ fSmearingMatrices' = Touch(fSmearingMatrices, frame[1])
    /\ fNBinMisses' = fNBinMisses + 1
    /\ frame' = <<frame[1], IntMax>>
    /\ depth' = depth + 1
    /\ UNCHANGED <<writer, pc, file, smear_mult, upstream, ptbins, etabins,
                   fCovarianceMatrices, sout, fInputArray, fItInputArray,
                   fOutputArray, fRandomGenerator, track, request, misses0,
                   delivered, bins, error>>

\* the recursion exhausts the stack (a build without tail calls), or the
\* overflow of etabin - 1 traps
GetValidBinsCrash ==
    /\ pc = "resolving"
    /\ ~HasFactor(fSmearingMatrices, frame[1], frame[2])
    /\ frame[2] # 0
    /\ depth >= StackLimit \/ frame[2] = IntMin
    /\ fSmearingMatrices' = Touch(fSmearingMatrices, frame[1])
    /\ error' = "crash"
    /\ pc' = "aborted"
    /\ UNCHANGED <<writer, file, smear_mult, upstream, ptbins, etabins,
                   fCovarianceMatrices, fNBinMisses, sout, fInputArray,
                   fItInputArray, fOutputArray, fRandomGenerator, track,
                   request, frame, depth, misses0, delivered, bins>>

(***************************************************************************)
(* Process: the smearing of one track, after getValidBins returned         *)
(***************************************************************************)
\* set_covariance: the lower triangle of the matrix, entry by entry
set_covariance(cov) ==
    Dense([ij \in {p \in Idx \X Idx : p[2] <= p[1]} |-> cov[ij]])

\* getRandomVector: five values from the random source
getRandomVector(gen) == [i \in Idx |-> gen[i + 1]]

\* the source reset to the state it had before the draw
RandomReset(gen) == gen

\* the source after four draws instead of five
RandomAfterFourDraws(gen) == SubSeq(gen, 5, Len(gen))

RandomAfterDraw(gen) == SubSeq(gen, 6, Len(gen))

\* forward transform: the vector (d0, z0, phi, theta, qoverp) of a track
TrackParameters(t) ==
    LET particle == t.Candidates[1]
        charge == particle.Charge
        eta == particle.Momentum.Eta
        pt == particle.Momentum.Pt
        phi == particle.Momentum.Phi
        px == pt * Cos4(phi)
        py == pt * Sin4(phi)
    IN  [i \in Idx |->
            CASE i = D0 -> (t.Xd * py - t.Yd * px) \div pt
              [] i = Z0 -> t.Zd
              [] i = PHI -> phi
              [] i = THETA -> ThetaOf(eta)
              [] i = QOVERP -> Rat(charge * 10, pt * CoshOf(eta))]

\* smeared = smearing_matrix * rand + track_parameters
Smeared(track_parameters, smearing_matrix, rand) ==
    LET smearing == MatVec(smearing_matrix, rand)
    IN  [i \in Idx |->
            IF i = QOVERP
            THEN RatAdd(track_parameters[i], Rat(smearing[i], QUnit))
            ELSE track_parameters[i] + smearing[i]]

\* the reconstructed pt without the cosh(eta) term
SmearedPtNoCosh(charge, smeared_qoverp, eta) ==
    Rat(charge * smeared_qoverp.d, smeared_qoverp.n)

\* charge/(smeared(QOVERP)*cosh(eta))
SmearedPt(charge, smeared_qoverp, eta) ==
    Rat(charge * smeared_qoverp.d * 10, smeared_qoverp.n * CoshOf(eta))

\* the assertion compiled out
AssertDisabled(smeared_pt) == TRUE

\* assert(smeared_pt >= 0)
AssertHolds(smeared_pt) == RatGeZero(smeared_pt)

\* the clone that keeps the sub-candidates of the track it was cloned from
SmearedTrackKeepsParticle(t, smeared, cov) ==
    LET particle == t.Candidates[1]
        phi == particle.Momentum.Phi
        phid0 == phi - 1
        cov_array == set_covariance(cov)
        smeared_pt == SmearedPt(particle.Charge, smeared[QOVERP],
                                particle.Momentum.Eta)
        smeared_eta == EtaOf(smeared[THETA])
        smeared_d0 == smeared[D0]
        phid0_reco == phid0 + (smeared[PHI] - phi)
    IN  [Momentum |-> [Pt |-> smeared_pt, Eta |-> smeared_eta,
                       Phi |-> NormPhi(smeared[PHI]),
                       M |-> particle.Momentum.M],
         Charge |-> t.Charge,
         trkPar |-> smeared,
         trkCov |-> cov_array,
         Dxy |-> smeared_d0,
         SDxy |-> Sqrt(Abs(cov_array[<<D0, D0>>])),
         Xd |-> smeared_d0 * Cos4(phid0_reco),
         Yd |-> smeared_d0 * Sin4(phid0_reco),
         Zd |-> smeared[Z0],
         Candidates |-> t.Candidates]

\* the clone of the track with the smeared parameters filled in
SmearedTrack(t, smeared, cov) ==
    LET particle == t.Candidates[1]
        phi == particle.Momentum.Phi
        phid0 == phi - 1
        cov_array == set_covariance(cov)
        smeared_pt == SmearedPt(particle.Charge, smeared[QOVERP],
                                particle.Momentum.Eta)
        smeared_eta == EtaOf(smeared[THETA])
        smeared_d0 == smeared[D0]
        phid0_reco == phid0 + (smeared[PHI] - phi)
    IN  [Momentum |-> [Pt |-> smeared_pt, Eta |-> smeared_eta,
                       Phi |-> NormPhi(smeared[PHI]),
                       M |-> particle.Momentum.M],
         Charge |-> t.Charge,
         trkPar |-> smeared,
         trkCov |-> cov_array,
         Dxy |-> smeared_d0,
         SDxy |-> Sqrt(Abs(cov_array[<<D0, D0>>])),
         Xd |-> smeared_d0 * Cos4(phid0_reco),
         Yd |-> smeared_d0 * Sin4(phid0_reco),
         Zd |-> smeared[Z0],
         Candidates |-> <<t>>]

SmearedOf(t, b, gen) ==
    Smeared(TrackParameters(t), fSmearingMatrices[b[1]][b[2]],
            getRandomVector(gen))

\* the rest of the loop body: the smeared track is added to the output
SmearEmit ==
    /\ pc = "smearing"
    /\ LET smeared == SmearedOf(track, bins, fRandomGenerator)
           particle == track.Candidates[1]
       IN  /\ AssertHolds(SmearedPt(particle.Charge, smeared[QOVERP],
                                    particle.Momentum.Eta))
           /\ fOutputArray' =
                 Append(fOutputArray,
                        SmearedTrack(track, smeared,
                                     fCovarianceMatrices[bins[1]][bins[2]]))
    /\ fRandomGenerator' = RandomAfterDraw(fRandomGenerator)
    /\ pc' = "loop"
    /\ UNCHANGED <<writer, file, smear_mult, upstream, ptbins, etabins,
                   fCovarianceMatrices, fSmearingMatrices, fNBinMisses, sout,
                   fInputArray, fItInputArray, track, request, frame, depth,
                   misses0, delivered, bins, error>>

\* the rest of the loop body: assert(smeared_pt >= 0) fails
SmearAbort ==
    /\ pc = "smearing"
    /\ LET smeared == SmearedOf(track, bins, fRandomGenerator)
           particle == track.Candidates[1]
       IN  ~AssertHolds(SmearedPt(particle.Charge, smeared[QOVERP],
                                  particle.Momentum.Eta))
    /\ fRandomGenerator' = RandomAfterDraw(fRandomGenerator)
    /\ error' = "assert"
    /\ pc' = "aborted"
    /\ UNCHANGED <<writer, file, smear_mult, upstream, ptbins, etabins,
                   fCovarianceMatrices, fSmearingMatrices, fNBinMisses, sout,
                   fInputArray, fItInputArray, fOutputArray, track, request,
                   frame, depth, misses0, delivered, bins>>

(***************************************************************************)
(* IPCovSmearing::Finish                                                   *)
(***************************************************************************)
ProblemLine(n) == <<"PROBLEM: ", n, "bin misses in track smearing">>

\* the summary written whatever the count is
FinishUnconditional ==
    /\ pc = "ready"
    /\ sout' = Append(sout, ProblemLine(fNBinMisses))
    /\ pc' = "finished"
    /\ UNCHANGED <<writer, file, smear_mult, upstream, ptbins, etabins,
                   fCovarianceMatrices, fSmearingMatrices, fNBinMisses,
                   fInputArray, fItInputArray, fOutputArray, fRandomGenerator,
                   track, request, frame, depth, misses0, delivered, bins, error>>

Finish ==
    /\ pc = "ready"
    /\ sout' = IF fNBinMisses # 0 THEN Append(sout, ProblemLine(fNBinMisses))
               ELSE sout
    /\ pc' = "finished"
    /\ UNCHANGED <<writer, file, smear_mult, upstream, ptbins, etabins,
                   fCovarianceMatrices, fSmearingMatrices, fNBinMisses,
                   fInputArray, fItInputArray, fOutputArray, fRandomGenerator,
                   track, request, frame, depth, misses0, delivered, bins, error>>

Next ==
    \/ ModuleInit
    \/ ProcessStart
    \/ ProcessReturn
    \/ LoopNext
    \/ GetValidBinsReturn
    \/ GetValidBinsThrow
    \/ GetValidBinsFallback
    \/ GetValidBinsWrap
    \/ GetValidBinsCrash
    \/ SmearEmit
    \/ SmearAbort
    \/ Finish

(***************************************************************************)
(* HDF5Writer: get_sorted_secondary_tracks                                 *)
(***************************************************************************)
\* a jet without secondary vertices
NoJet == [secondaryVertices |-> <<>>]

\* out::VertexTrack(const SecondaryVertexTrack&): the copied fields
VertexTrack(tk) == [d0 |-> tk.d0, weight |-> tk.weight]

\* out::SecondaryVertex(const ::SecondaryVertex&): the copied fields
SecondaryVertex(vx) == [mass |-> vx.mass]

\* out::CombinedSecondaryTrack(tk, vx)
CombinedSecondaryTrack(tk, vx) ==
    [track |-> VertexTrack(tk), vertex |-> SecondaryVertex(vx)]

\* the inner loop: the tracks of vertex vx from position i on
RECURSIVE ScanVertexTracks(_, _, _)
ScanVertexTracks(vx, i, st) ==
    IF i > Len(vx.tracks_along_jet) THEN st
    ELSE LET trk == vx.tracks_along_jet[i]
         IN  ScanVertexTracks(vx, i + 1,
                IF trk.delphes_track \notin DOMAIN st.used
                THEN [st EXCEPT
                        !.sorted_secondary_tracks =
                            Append(st.sorted_secondary_tracks,
                                   CombinedSecondaryTrack(trk, vx)),
                        !.used = Put(st.used, trk.delphes_track, trk.weight)]
                ELSE [st EXCEPT !.n_overlap = st.n_overlap + 1])

\* the outer loop taken from the first vertex to the last
RECURSIVE ScanVerticesForward(_, _, _)
ScanVerticesForward(vertices, v, st) ==
    IF v < 1 THEN st
    ELSE ScanVerticesForward(vertices, v - 1,
            ScanVertexTracks(vertices[Len(vertices) + 1 - v], 1, st))

\* the outer loop, crbegin() to crend(): the vertices from the v-th down
RECURSIVE ScanVertices(_, _, _)
ScanVertices(vertices, v, st) ==
    IF v < 1 THEN st
    ELSE ScanVertices(vertices, v - 1, ScanVertexTracks(vertices[v], 1, st))

\* operator< of CombinedSecondaryTrack, which is that of VertexTrack
TrackLess(t1, t2) == t1.track.d0 < t2.track.d0

\* std::sort: the outcomes are the orderings of the elements in which no
\* element is less than one before it (the sort is not stable)
SortOutcomes(s) ==
    LET n == Len(s)
        perms == {p \in [1..n -> 1..n] : \A i, j \in 1..n : i # j => p[i] # p[j]}
    IN  {[k \in 1..n |-> s[p[k]]] : p \in
            {q \in perms : \A i, j \in 1..n :
                              i < j => ~TrackLess(s[q[j]], s[q[i]])}}

\* secondary_vertex_tracks = get_sorted_secondary_tracks(jet)
GetSortedSecondaryTracks ==
    /\ pc = "jet"
    /\ LET st == ScanVertices(jet.secondaryVertices,
                              Len(jet.secondaryVertices),
                              [used |-> EmptyMap, n_overlap |-> 0,
                               sorted_secondary_tracks |-> <<>>])
       IN  secondary_vertex_tracks' \in SortOutcomes(st.sorted_secondary_tracks)
    /\ pc' = "written"
    /\ UNCHANGED <<jet, file, smear_mult, upstream, ptbins, etabins,
                   fCovarianceMatrices, fSmearingMatrices, fNBinMisses, sout,
                   fInputArray, fItInputArray, fOutputArray, fRandomGenerator,
                   track, request, frame, depth, misses0, delivered, bins,
                   error>>

(***************************************************************************)
(* The inputs: parametrization files, tracks, random sources               *)
(***************************************************************************)
\* a positive definite matrix L L^T that differs from bin to bin
GoodMatrix(p, e) ==
    LET L == Dense([ij \in Idx \X Idx |->
                IF ij[1] = ij[2] THEN 1 + ((p + e + ij[1]) % 3)
                ELSE IF ij[2] < ij[1] THEN (ij[1] + ij[2] + p) % 2
                ELSE 0])
    IN  MatMul(L, Transpose(L))

\* a symmetric matrix that is not positive semi-definite
BadMatrix(p, e) ==
    LET good == GoodMatrix(p, e)
    IN  Dense([ij \in Idx \X Idx |-> IF ij = <<Z0, Z0>> THEN -1 ELSE good[ij]])

PhysPtBins == 0..(Len(ConfiguredPtBins) - 1)
EtaBins == 0..(Len(ConfiguredEtaBins) - 1)

\* every row complete except row r, which holds the eta bins below top;
\* of those, bin hole is absent (kind "absent") or not positive (kind "bad")
MakeFile(r, top, hole, kind) ==
    LET present == {pe \in PhysPtBins \X EtaBins :
                       \/ pe[1] # r
                       \/ /\ pe[2] < top
                          /\ ~(pe[2] = hole /\ kind = "absent")}
        names == {MatrixName(pe[1], pe[2]) : pe \in present}
    IN  Dense([nm \in names |->
            LET p == 10 * nm[2][2] + nm[2][3]
                e == 10 * nm[4][2] + nm[4][3]
            IN  IF p = r /\ e = hole /\ kind = "bad"
                THEN BadMatrix(p, e)
                ELSE GoodMatrix(p, e)])

FullFile == MakeFile(-1, 0, -1, "absent")

BinFiles ==
    {MakeFile(r, top, hole, kind) :
        r \in {0, 4}, top \in {0, 1, 4, 9}, hole \in {-1, 0, 2},
        kind \in {"absent", "bad"}}

MakeTrack(pt, eta, phi, m, q, xd, yd, zd) ==
    [Momentum |-> [Pt |-> pt, Eta |-> eta, Phi |-> phi, M |-> m],
     Charge |-> q, Xd |-> xd, Yd |-> yd, Zd |-> zd,
     Candidates |-> <<[Momentum |-> [Pt |-> pt, Eta |-> eta, Phi |-> phi,
                                     M |-> m],
                       Charge |-> q, Candidates |-> <<>>]>>]

BinTracks ==
    {MakeTrack(pt, eta, 0, 0, 1, 0, 0, 0) :
        pt \in {5, 15, 225}, eta \in {0, 40, -90, 280}}
    \cup {MakeTrack(15, 40, 0, 0, 0, 0, 0, 0)}

KinTracks ==
    {MakeTrack(pt, 90, phi, 0, q, d[1], d[2], d[3]) :
        pt \in {50, 800}, phi \in {0, 1}, q \in {-1, 0, 1},
        d \in {<<1, 0, 0>>, <<0, -1, 2>>}}
    \cup {MakeTrack(225, eta, 0, 0, 1, 0, 0, 0) : eta \in {0, 280}}

ZeroNoise == <<0, 0, 0, 0, 0>>

RECURSIVE Tapes(_, _)
Tapes(vecs, n) ==
    IF n = 0 THEN {<<>>}
    ELSE {v \o t : v \in vecs, t \in Tapes(vecs, n - 1)}

InitWith(files, mults, tracks, noise) ==
    /\ pc = "new"
    /\ file \in files
    /\ smear_mult \in mults
    /\ upstream = tracks
    /\ ptbins = <<>>
    /\ etabins = <<>>
    /\ fCovarianceMatrices = EmptyMap
    /\ fSmearingMatrices = EmptyMap
    /\ fNBinMisses = 0
    /\ sout = <<>>
    /\ fInputArray = <<>>
    /\ fItInputArray = 0
    /\ fOutputArray = <<>>
    /\ fRandomGenerator \in Tapes(noise, MaxTracks)
    /\ track = MakeTrack(1, 0, 0, 0, 0, 0, 0, 0)
    /\ request = <<0, 0>>
    /\ frame = <<0, 0>>
    /\ depth = 0
    /\ misses0 = 0
    /\ delivered = 0
    /\ bins = <<0, 0>>
    /\ error = "none"
    /\ jet = NoJet
    /\ secondary_vertex_tracks = <<>>

\* incomplete parametrization files, tracks in every kind of bin
Init ==
    \/ InitWith(BinFiles, {1}, BinTracks, {ZeroNoise})
    \/ InitWith({FullFile}, {4}, BinTracks, {ZeroNoise})

Spec == Init /\ [][Next]_vars

\* two parametrization files, tracks of every charge, direction and
\* displacement, three noise vectors
InitKin ==
    InitWith({FullFile, MakeFile(4, 0, -1, "absent")}, {1}, KinTracks,
             {ZeroNoise, <<0, 0, 0, 0, -1>>, <<1, 1, 1, 1, 1>>})

SpecKin == InitKin /\ [][Next]_vars

(***************************************************************************)
(* The bin scan of Process on its own: one track is waiting in the input   *)
(* array, the edge vectors are arbitrary strictly increasing sequences or  *)
(* the configured ones.                                                    *)
(***************************************************************************)
RECURSIVE IncreasingSeqs(_, _)
IncreasingSeqs(lo, n) ==
    {<<>>} \cup
    (IF n = 0 THEN {}
     ELSE UNION {{<<v>> \o q : q \in IncreasingSeqs(v + 1, n - 1)} :
                    v \in lo..MaxEdgeVal})

ScanTracks ==
    {MakeTrack(pt, eta, 0, 0, 1, 0, 0, 0) :
        pt \in 0..(MaxEdgeVal + 1),
        eta \in (-MaxEdgeVal - 1)..(MaxEdgeVal + 1)}

ConfiguredScanTracks ==
    {MakeTrack(pt, eta, 0, 0, 1, 0, 0, 0) :
        pt \in {5, 10, 15, 20, 800}, eta \in {0, 40, -90, 90, 280}}

InitScan ==
    /\ \/ /\ ptbins \in IncreasingSeqs(0, MaxEdges)
          /\ etabins = ptbins
          /\ upstream = ScanTracks
       \/ /\ ptbins = ConfiguredPtBins
          /\ etabins = ConfiguredEtaBins
          /\ upstream = ConfiguredScanTracks
    /\ \E t \in upstream : fInputArray = <<t>>
    /\ pc = "loop"
    /\ file = FullFile
    /\ smear_mult = 1
    /\ fCovarianceMatrices = EmptyMap
    /\ fSmearingMatrices = EmptyMap
    /\ fNBinMisses = 0
    /\ sout = <<>>
    /\ fItInputArray = 0
    /\ fOutputArray = <<>>
    /\ fRandomGenerator = ZeroNoise
    /\ track = MakeTrack(1, 0, 0, 0, 0, 0, 0, 0)
    /\ request = <<0, 0>>
    /\ frame = <<0, 0>>
    /\ depth = 0
    /\ misses0 = 0
    /\ delivered = 1
    /\ bins = <<0, 0>>
    /\ error = "none"
    /\ jet = NoJet
    /\ secondary_vertex_tracks = <<>>

NextScan == LoopNext

SpecScan == InitScan /\ [][NextScan]_vars

(***************************************************************************)
(* A run of several tracks over one or more events.  The random source is  *)
(* a tape of the values it will return: MaxRun blocks of five, closed by   *)
(* the seed that generated them (never drawn).                             *)
(***************************************************************************)
RunNoise == <<ZeroNoise, <<1, 1, 1, 1, 1>>, <<0, 0, 0, 0, -1>>>>

RunSeeds == 0..(Len(RunNoise) - 1)

\* the five values the source seeded with seed returns at its k-th call of
\* getRandomVector
RunBlock(seed, k) == RunNoise[((seed + k - 1) % Len(RunNoise)) + 1]

RECURSIVE RunTapeFrom(_, _)
RunTapeFrom(seed, k) ==
    IF k > MaxRun THEN <<seed>>
    ELSE RunBlock(seed, k) \o RunTapeFrom(seed, k + 1)

RunTape(seed) == RunTapeFrom(seed, 1)

\* a complete file, one whose row 4 stops at eta bin 3 and lacks eta bin 0,
\* one whose bin (4, 2) is not positive
RunFiles ==
    {FullFile, MakeFile(4, 4, 0, "absent"), MakeFile(4, 4, 2, "bad")}

RunTracks ==
    {MakeTrack(225, 280, 0, 0, 1, 0, 0, 0),
     MakeTrack(225, 40, 0, 0, 1, 0, 0, 0),
     MakeTrack(225, 90, 0, 0, -1, 0, 3, 0),
     MakeTrack(15, 0, 0, 0, 1, 0, 0, 0),
     MakeTrack(50, 90, 1, 0, 1, 0, -1, 2),
     MakeTrack(800, 90, 0, 0, 1, 1, 0, 0)}

InitRun ==
    /\ pc = "new"
    /\ file \in RunFiles
    /\ smear_mult = 1
    /\ upstream = RunTracks
    /\ ptbins = <<>>
    /\ etabins = <<>>
    /\ fCovarianceMatrices = EmptyMap
    /\ fSmearingMatrices = EmptyMap
    /\ fNBinMisses = 0
    /\ sout = <<>>
    /\ fInputArray = <<>>
    /\ fItInputArray = 0
    /\ fOutputArray = <<>>
    /\ \E seed \in RunSeeds : fRandomGenerator = RunTape(seed)
    /\ track = MakeTrack(1, 0, 0, 0, 0, 0, 0, 0)
    /\ request = <<0, 0>>
    /\ frame = <<0, 0>>
    /\ depth = 0
    /\ misses0 = 0
    /\ delivered = 0
    /\ bins = <<0, 0>>
    /\ error = "none"
    /\ jet = NoJet
    /\ secondary_vertex_tracks = <<>>

\* Process is called for the next event of the run
ProcessStartRun ==
    /\ pc = "ready"
    /\ \E n \in 0..(MaxRun - delivered) : \E arr \in [1..n -> upstream] :
          /\ fInputArray' = arr
          /\ delivered' = delivered + n
    /\ fItInputArray' = 0
    /\ pc' = "loop"
    /\ UNCHANGED <<writer, file, smear_mult, upstream, ptbins, etabins,
                   fCovarianceMatrices, fSmearingMatrices, fNBinMisses, sout,
                   fOutputArray, fRandomGenerator, track, request, frame,
                   depth, misses0, bins, error>>

NextRun ==
    \/ ModuleInit
    \/ ProcessStartRun
    \/ ProcessReturn
    \/ LoopNext
    \/ GetValidBinsReturn
    \/ GetValidBinsThrow
    \/ GetValidBinsFallback
    \/ GetValidBinsWrap
    \/ GetValidBinsCrash
    \/ SmearEmit
    \/ SmearAbort
    \/ Finish

SpecRun == InitRun /\ [][NextRun]_vars

(***************************************************************************)
(* The jets HDF5Writer is given: up to MaxVertices secondary vertices,     *)
(* each listing some of the underlying tracks once, in either order; the   *)
(* d0 and the weight of a track differ from vertex to vertex.  The jet is  *)
(* written at any point of its construction.                               *)
(***************************************************************************)
JetCandidates == 1..3
JetD0 == {-1, 1}

RECURSIVE TracksOf(_, _, _)
TracksOf(f, c, w) ==
    IF c \notin JetCandidates THEN <<>>
    ELSE (IF f[c] = {} THEN <<>>
          ELSE <<[delphes_track |-> c, d0 |-> CHOOSE d \in f[c] : TRUE,
                  weight |-> w]>>)
         \o TracksOf(f, c + 1, w)

RECURSIVE Reverse(_)
Reverse(s) == IF s = <<>> THEN <<>> ELSE Append(Reverse(Tail(s)), Head(s))

\* the track lists a vertex of weight w can have
VertexTracks(w) ==
    UNION {{TracksOf(f, 1, w), Reverse(TracksOf(f, 1, w))} :
              f \in [JetCandidates -> {{}} \cup {{d} : d \in JetD0}]}

\* the vertex finder adds a secondary vertex to the jet
AddSecondaryVertex ==
    /\ pc = "jet"
    /\ Len(jet.secondaryVertices) < MaxVertices
    /\ \E tks \in VertexTracks(Len(jet.secondaryVertices) + 1) :
          jet' = [secondaryVertices |->
                     Append(jet.secondaryVertices,
                            [mass |-> Len(jet.secondaryVertices) + 1,
                             tracks_along_jet |-> tks])]
    /\ UNCHANGED <<pc, secondary_vertex_tracks, file, smear_mult, upstream,
                   ptbins, etabins, fCovarianceMatrices, fSmearingMatrices,
                   fNBinMisses, sout, fInputArray, fItInputArray, fOutputArray,
                   fRandomGenerator, track, request, frame, depth, misses0,
                   delivered, bins, error>>

InitJet ==
    /\ pc = "jet"
    /\ jet = NoJet
    /\ secondary_vertex_tracks = <<>>
    /\ file = EmptyMap
    /\ smear_mult = 1
    /\ upstream = {}
    /\ ptbins = <<>>
    /\ etabins = <<>>
    /\ fCovarianceMatrices = EmptyMap
    /\ fSmearingMatrices = EmptyMap
    /\ fNBinMisses = 0
    /\ sout = <<>>
    /\ fInputArray = <<>>
    /\ fItInputArray = 0
    /\ fOutputArray = <<>>
    /\ fRandomGenerator = <<>>
    /\ track = MakeTrack(1, 0, 0, 0, 0, 0, 0, 0)
    /\ request = <<0, 0>>
    /\ frame = <<0, 0>>
    /\ depth = 0
    /\ misses0 = 0
    /\ delivered = 0
    /\ bins = <<0, 0>>
    /\ error = "none"

NextJet ==
    \/ AddSecondaryVertex
    \/ GetSortedSecondaryTracks

SpecJet == InitJet /\ [][NextJet]_vars

C2_FatalAtEtaZero ==
    [][(/\ pc = "resolving"
        /\ frame[2] = 0
        /\ ~HasFactor(fSmearingMatrices, frame[1], 0))
       => /\ pc' = "aborted"
          /\ error' = "logic_error"
          /\ bins' = bins
          /\ fOutputArray' = fOutputArray]_vars

C2_Witness ==
    /\ pc = "aborted"
    /\ error = "logic_error"
    /\ request[2] > 0
    /\ frame = <<request[1], 0>>
    /\ depth = request[2]

\* C3: a bin resolution takes at most N_eta_bins fallback steps, for every
\* bin pair the scan produces (eta bin -1 included).
C3_BoundedFallback == depth <= Len(ConfiguredEtaBins)

\* C4: the scan yields the greatest index whose edge lies strictly below
\* the value (pt, |eta|), or -1; a value on an edge belongs to the bin
\* below; with the configured edges pt 15 -> 0, 5 -> -1, 10 -> -1,
\* |eta| 0.9 -> 2.
GreatestBelow(edges, x) ==
    LET below == {i \in 1..Len(edges) : x > edges[i]}
    IN  IF below = {} THEN -1
        ELSE (CHOOSE i \in below : \A j \in below : j <= i) - 1

C4_BinScan ==
    fItInputArray > 0
    => LET pt == track.Candidates[1].Momentum.Pt
           abseta == Abs(track.Candidates[1].Momentum.Eta)
       IN  /\ request[1] = GreatestBelow(ptbins, pt)
           /\ request[2] = GreatestBelow(etabins, abseta)
           /\ \A i \in 1..Len(ptbins) : pt = ptbins[i] => request[1] = i - 2
           /\ \A i \in 1..Len(etabins) :
                 abseta = etabins[i] => request[2] = i - 2
           /\ ptbins = ConfiguredPtBins
                 => /\ pt = 15 => request[1] = 0
                    /\ pt = 5 => request[1] = -1
                    /\ pt = 10 => request[1] = -1
           /\ (etabins = ConfiguredEtaBins /\ abseta = 90) => request[2] = 2

C4_Witness ==
    /\ fItInputArray > 0
    /\ ptbins = ConfiguredPtBins
    /\ etabins = ConfiguredEtaBins
    /\ track.Candidates[1].Momentum.Pt = 10
    /\ track.Candidates[1].Momentum.Eta = -90
    /\ request = <<-1, 2>>

InitPtBins == {-1} \cup PhysPtBins

\* the name Init asks the file for is not in the file
NameAbsent(ipt, ieta) ==
    MatrixName(IF ipt = -1 THEN 0 ELSE ipt, ieta) \notin DOMAIN file

\* C5: a bin whose loaded matrix fails the Cholesky factorization has no
\* entry in the factor table after Init, and a diagnostic names it.
C5_NonPsdDropped ==
    pc # "new"
    => \A ipt \in InitPtBins, ieta \in EtaBins :
          (/\ ~NameAbsent(ipt, ieta)
           /\ LltInfo(MatScale(get_cov_matrix(file, ipt, ieta), smear_mult)) # -1)
          => /\ ~Has2(fSmearingMatrices, ipt, ieta)
             /\ InfoLine(ipt, ieta) \in Range(sout)

\* C6: after Init a bin whose name is absent from the file is in neither
\* table and has exactly one diagnostic line; every other bin of the loop
\* is in both tables, so the absence did not stop the loop.
C6_AbsentLeftUnset ==
    pc # "new"
    => \A ipt \in InitPtBins, ieta \in EtaBins :
          IF NameAbsent(ipt, ieta)
          THEN /\ ~Has2(fCovarianceMatrices, ipt, ieta)
               /\ ~Has2(fSmearingMatrices, ipt, ieta)
               /\ Cardinality({k \in 1..Len(sout) :
                                  sout[k] = InfoLine(ipt, ieta)}) = 1
          ELSE /\ Has2(fCovarianceMatrices, ipt, ieta)
               /\ Has2(fSmearingMatrices, ipt, ieta)

C6_Witness ==
    /\ pc = "ready"
    /\ NameAbsent(4, 2)
    /\ ~Has2(fCovarianceMatrices, 4, 2)
    /\ Has2(fCovarianceMatrices, 4, 3)
    /\ Has2(fSmearingMatrices, 7, 8)
    /\ InfoLine(4, 2) \in Range(sout)

\* C7: the matrix under pt bin -1 exists exactly when the one under pt bin
\* 0 does, its d0,d0 and z0,z0 entries are 4 times those under pt bin 0,
\* and the d0,d0 and z0,z0 entries under pt bins >= 0 are those of the
\* file (times the smearing multiple).
C7_LowPtInflation ==
    pc # "new"
    => \A e \in EtaBins :
          /\ Has2(fCovarianceMatrices, -1, e) <=> Has2(fCovarianceMatrices, 0, e)
          /\ Has2(fCovarianceMatrices, -1, e)
                => \A c \in {D0, Z0} :
                      fCovarianceMatrices[-1][e][<<c, c>>]
                         = 4 * fCovarianceMatrices[0][e][<<c, c>>]
          /\ \A p \in PhysPtBins :
                Has2(fCovarianceMatrices, p, e)
                   => \A c \in {D0, Z0} :
                         fCovarianceMatrices[p][e][<<c, c>>]
                            = smear_mult * file[MatrixName(p, e)][<<c, c>>]

C7_Witness ==
    /\ pc = "ready"
    /\ Has2(fCovarianceMatrices, -1, 2)
    /\ ~Has2(fCovarianceMatrices, -1, 5)
    /\ fCovarianceMatrices[-1][2][<<D0, D0>>] > 0
    /\ fCovarianceMatrices[-1][2][<<Z0, Z0>>]
          = 4 * smear_mult * file[MatrixName(0, 2)][<<Z0, Z0>>]

\* C8: the conversion multiplies the qoverp,qoverp entry by 1000*1000, the
\* other entries of the qoverp row and column by 1000, leaves the rest and
\* keeps the matrix symmetric; the matrix stored for a pt bin >= 0 is the
\* converted one (times the smearing multiple).
C8_UnitConversion ==
    pc # "new"
    => \A p \in PhysPtBins, e \in EtaBins :
          Has2(fCovarianceMatrices, p, e)
             => LET M == file[MatrixName(p, e)]
                    C == fCovarianceMatrices[p][e]
                IN  /\ C[<<QOVERP, QOVERP>>]
                          = smear_mult * 1000 * 1000 * M[<<QOVERP, QOVERP>>]
                    /\ \A i \in Idx \ {QOVERP} :
                          /\ C[<<i, QOVERP>>] = smear_mult * 1000 * M[<<i, QOVERP>>]
                          /\ C[<<QOVERP, i>>] = smear_mult * 1000 * M[<<QOVERP, i>>]
                    /\ \A i \in Idx \ {QOVERP}, j \in Idx \ {QOVERP} :
                          C[<<i, j>>] = smear_mult * M[<<i, j>>]
                    /\ \A i \in Idx, j \in Idx : C[<<i, j>>] = C[<<j, i>>]

C8_Witness ==
    /\ pc = "ready"
    /\ Has2(fCovarianceMatrices, 7, 2)
    /\ file[MatrixName(7, 2)][<<QOVERP, D0>>] # 0
    /\ fCovarianceMatrices[7][2][<<QOVERP, D0>>]
          = 1000 * smear_mult * file[MatrixName(7, 2)][<<QOVERP, D0>>]
    /\ fCovarianceMatrices[7][2][<<QOVERP, QOVERP>>]
          = 1000000 * smear_mult * file[MatrixName(7, 2)][<<QOVERP, QOVERP>>]

\* an emitted track whose noise was the zero vector
ZeroNoiseOutput(out) == out.trkPar = TrackParameters(out.Candidates[1])

\* the impact parameter of a track, xd*sin(phi) - yd*cos(phi)
ImpactOf(t) ==
    t.Xd * Sin4(t.Momentum.Phi) - t.Yd * Cos4(t.Momentum.Phi)

SameMomentum(out, in) ==
    /\ out.Momentum.Pt = Rat(in.Momentum.Pt, 1)
    /\ out.Momentum.Eta = in.Momentum.Eta
    /\ out.Momentum.Phi = in.Momentum.Phi
    /\ out.Momentum.M = in.Momentum.M

\* C9 as stated: with zero noise the output has the momentum and the
\* perigee displacement (xd, yd, zd) of the input.
C9_RoundTripDisplacement ==
    \A k \in 1..Len(fOutputArray) :
        LET out == fOutputArray[k]
            in == out.Candidates[1]
        IN  ZeroNoiseOutput(out)
            => /\ SameMomentum(out, in)
               /\ out.Xd = in.Xd /\ out.Yd = in.Yd /\ out.Zd = in.Zd

\* C9 amended: with zero noise and a charged track the output has the pt,
\* eta, phi, mass and zd of the input and its impact parameter d0; its
\* (xd, yd) is d0*(sin(phi), -cos(phi)), which is the input's (xd, yd)
\* when that is perpendicular to the momentum.
C9_RoundTripImpact ==
    \A k \in 1..Len(fOutputArray) :
        LET out == fOutputArray[k]
            in == out.Candidates[1]
            phi == in.Momentum.Phi
        IN  ZeroNoiseOutput(out)
            => /\ in.Charge # 0
               /\ SameMomentum(out, in)
               /\ out.Zd = in.Zd
               /\ out.Dxy = ImpactOf(in)
               /\ ImpactOf(out) = ImpactOf(in)
               /\ out.Xd = ImpactOf(in) * Sin4(phi)
               /\ out.Yd = -ImpactOf(in) * Cos4(phi)
               /\ in.Xd * Cos4(phi) + in.Yd * Sin4(phi) = 0
                     => out.Xd = in.Xd /\ out.Yd = in.Yd

C9_Witness ==
    \E k \in 1..Len(fOutputArray) :
        LET out == fOutputArray[k]
            in == out.Candidates[1]
        IN  /\ ZeroNoiseOutput(out)
            /\ in.Momentum.Pt = 50 /\ in.Momentum.Phi = 0 /\ in.Charge = 1
            /\ in.Xd = 1 /\ in.Yd = 0 /\ in.Zd = 0
            /\ out.Xd = 0 /\ out.Yd = 0 /\ out.Dxy = 0
            /\ out.Momentum.Pt = Rat(50, 1)

\* the reconstructed pt of the track being smeared
CurrentSmearedPt ==
    SmearedPt(track.Candidates[1].Charge,
              SmearedOf(track, bins, fRandomGenerator)[QOVERP],
              track.Candidates[1].Momentum.Eta)

\* C10 as stated: a negative or zero reconstructed pt aborts the processing
\* and no smeared track is added.
C10_NonPositiveAborts ==
    [][(/\ pc = "smearing"
        /\ RatIsNegative(CurrentSmearedPt) \/ RatIsZero(CurrentSmearedPt))
       => /\ pc' = "aborted"
          /\ fOutputArray' = fOutputArray]_vars

\* C10 amended: a negative reconstructed pt, or one that is not a number
\* (charge 0 and smeared qoverp 0), aborts the processing and no smeared
\* track is added; every other value, zero included, passes the assertion
\* smeared_pt >= 0 and the smeared track is added.
C10_NegativeAborts ==
    [][pc = "smearing"
       => IF RatIsNegative(CurrentSmearedPt) \/ IsNaN(CurrentSmearedPt)
          THEN /\ pc' = "aborted"
               /\ error' = "assert"
               /\ fOutputArray' = fOutputArray
          ELSE /\ pc' = "loop"
               /\ Len(fOutputArray') = Len(fOutputArray) + 1]_vars

C10_Witness ==
    /\ pc = "aborted"
    /\ error = "assert"
    /\ track.Candidates[1].Charge = 1
    /\ track.Candidates[1].Momentum.Pt = 800
    /\ fOutputArray = <<>>
    /\ fRandomGenerator = <<>>

\* C11: an activation of getValidBins whose bin has a cached factor returns
\* that bin and leaves the miss counter as it was; when it is the bin
\* Process asked for, the pair returned is the requested one and no miss
\* was counted for the track.
C11_ExactBinReturned ==
    [][(pc = "resolving" /\ HasFactor(fSmearingMatrices, frame[1], frame[2]))
       => /\ pc' = "smearing"
          /\ bins' = frame
          /\ fNBinMisses' = fNBinMisses
          /\ depth = 0 => (bins' = request /\ fNBinMisses' = misses0)]_vars

C11_Witness ==
    /\ pc = "smearing"
    /\ depth = 0
    /\ request = <<4, 8>>
    /\ bins = request
    /\ HasFactor(fSmearingMatrices, 4, 8)
    /\ fNBinMisses = misses0

\* C12: once Init has run, no step changes the covariance table or the
\* factor table: the outer pt-bin keys, the inner eta-bin keys and every
\* stored matrix stay as Init left them.
C12_TablesImmutable ==
    [][pc # "new"
       => /\ fCovarianceMatrices' = fCovarianceMatrices
          /\ fSmearingMatrices' = fSmearingMatrices]_vars

\* the seed of the run and the noise its source returns for the k-th track
RunSeed == fRandomGenerator[Len(fRandomGenerator)]

RunNoiseAt(k) == [i \in Idx |-> RunTape(RunSeed)[5 * (k - 1) + i + 1]]

\* the bin Process asks getValidBins for
RequestedBin(t) ==
    <<GreatestBelow(ptbins, t.Candidates[1].Momentum.Pt),
      GreatestBelow(etabins, Abs(t.Candidates[1].Momentum.Eta))>>

\* the bin an emitted track was smeared with: its pt bin and the greatest
\* eta bin with a factor at or below the requested one; for the requested
\* eta bin -1 (eta = 0) a track is emitted only when the int wrapped, and
\* the search went on from the largest int
ResolvedBin(t) ==
    LET r == RequestedBin(t)
        top == IF r[2] >= 0 THEN r[2] ELSE IntMax
    IN  <<r[1], CHOOSE e \in 0..top :
                   /\ Has2(fSmearingMatrices, r[1], e)
                   /\ \A y \in (e + 1)..top : ~Has2(fSmearingMatrices, r[1], y)>>

\* the fallback steps getValidBins took for an emitted track
FallbackOf(t) ==
    LET r == RequestedBin(t)
        e == ResolvedBin(t)[2]
    IN  IF r[2] >= 0 THEN r[2] - e
        ELSE (r[2] - IntMin) + 1 + (IntMax - e)

\* the fallback steps taken for the first k emitted tracks
RECURSIVE FallbackSteps(_)
FallbackSteps(k) ==
    IF k = 0 THEN 0
    ELSE FallbackSteps(k - 1) + FallbackOf(fOutputArray[k].Candidates[1])

\* the output the k-th track of the run gives with the tables and the seed
ExpectedOutput(k) ==
    LET in == fOutputArray[k].Candidates[1]
        b == ResolvedBin(in)
    IN  SmearedTrack(in,
                     Smeared(TrackParameters(in),
                             fSmearingMatrices[b[1]][b[2]], RunNoiseAt(k)),
                     fCovarianceMatrices[b[1]][b[2]])

\* C13: the outputs and the miss counter are a function of the seed, the
\* tables and the input tracks: the k-th emitted track is the smearing of
\* the k-th input with the k-th block of five values of the source, the
\* tracks of an event are emitted in the order of the input array, and the
\* miss counter is the sum of the fallback steps of the tracks.
C13_SameInputsSameOutputs ==
    LET done == Len(fOutputArray)
        tape == RunTape(RunSeed)
    IN  /\ \A k \in 1..done : fOutputArray[k] = ExpectedOutput(k)
        /\ pc \in {"loop", "ready", "finished"}
              => /\ fNBinMisses = FallbackSteps(done)
                 /\ fRandomGenerator = SubSeq(tape, 5 * done + 1, Len(tape))
        /\ pc = "loop"
              => /\ fItInputArray <= done
                 /\ \A j \in 1..fItInputArray :
                       fOutputArray[done - fItInputArray + j].Candidates[1]
                          = fInputArray[j]

C13_Witness ==
    /\ pc = "loop"
    /\ fItInputArray = 2
    /\ Len(fOutputArray) = 2
    /\ fInputArray[1] # fInputArray[2]
    /\ RunNoiseAt(1) # RunNoiseAt(2)
    /\ fOutputArray[1].trkPar # TrackParameters(fInputArray[1])
    /\ fOutputArray[2] = ExpectedOutput(2)
    /\ fNBinMisses = 5

\* C17: the source advances by five values in the step that smears a track
\* whose bins were resolved and by none in any other step, a fatal bin
\* resolution included: the values consumed are five times the number of
\* tracks smeared.
C17_FiveDrawsPerTrack ==
    /\ [](LET consumed == Len(RunTape(RunSeed)) - Len(fRandomGenerator)
              smeared == Len(fOutputArray) + (IF error = "assert" THEN 1 ELSE 0)
          IN  consumed = 5 * smeared)
    /\ [][IF pc = "smearing"
          THEN fRandomGenerator' = SubSeq(fRandomGenerator, 6,
                                          Len(fRandomGenerator))
          ELSE fRandomGenerator' = fRandomGenerator]_vars

C17_Witness ==
    /\ pc = "aborted"
    /\ error = "logic_error"
    /\ fItInputArray = 2
    /\ Len(fOutputArray) = 1
    /\ Len(fRandomGenerator) = Len(RunTape(RunSeed)) - 5

\* C14: Process leaves the input array as the upstream delivered it, and
\* the track it emits for an input is another object than the input: a
\* clone whose only sub-candidate is the input track itself.
C14_InputsNotMutated ==
    [][/\ pc \in {"loop", "resolving", "smearing"}
             => fInputArray' = fInputArray
       /\ \A j \in 1..Len(fInputArray') : fInputArray'[j] \in upstream
       /\ (pc = "smearing" /\ pc' = "loop")
             => LET in == fInputArray[fItInputArray]
                    out == fOutputArray'[Len(fOutputArray')]
                IN  /\ Len(fOutputArray') = Len(fOutputArray) + 1
                    /\ SubSeq(fOutputArray', 1, Len(fOutputArray)) = fOutputArray
                    /\ out.Candidates = <<in>>
                    /\ out # in]_vars

C14_Witness ==
    /\ pc = "loop"
    /\ fItInputArray = 2
    /\ Len(fOutputArray) = 2
    /\ fInputArray[2] \in upstream
    /\ fOutputArray[2].Candidates = <<fInputArray[2]>>
    /\ fOutputArray[2].Zd # fInputArray[2].Zd
    /\ fOutputArray[2].trkPar # TrackParameters(fInputArray[2])

\* the summary lines of the text stream
SummaryLines == {k \in 1..Len(sout) : sout[k][1] = "PROBLEM: "}

\* C15 as stated: after Finish the stream holds exactly one summary line,
\* and it reports the number of fallback steps taken in the run, whatever
\* that number is.
C15_OneSummaryLine ==
    pc = "finished"
    => /\ Cardinality(SummaryLines) = 1
       /\ \A k \in SummaryLines :
             sout[k][2] = FallbackSteps(Len(fOutputArray))

\* C15 amended: no summary line is written before Finish; Finish writes
\* one summary line, the last of the stream, reporting the number of
\* fallback steps taken in the run, when that number is not zero, and no
\* line when it is zero.
C15_SummaryWhenMisses ==
    LET total == FallbackSteps(Len(fOutputArray))
    IN  IF pc = "finished" /\ total # 0
        THEN /\ SummaryLines = {Len(sout)}
             /\ sout[Len(sout)][2] = total
             /\ sout[Len(sout)][3] = "bin misses in track smearing"
        ELSE SummaryLines = {}

C15_Witness ==
    /\ pc = "finished"
    /\ Len(fOutputArray) = 2
    /\ FallbackSteps(2) = 10
    /\ fOutputArray[1].Candidates[1] = fOutputArray[2].Candidates[1]
    /\ SummaryLines = {Len(sout)}
    /\ sout[Len(sout)][2] = 10

\* the (pt bin, eta bin) pairs a table holds a matrix for
KeysOf(m) == UNION {{<<p, e>> : e \in DOMAIN m[p]} : p \in DOMAIN m}

\* C16: the factor table and the covariance table hold matrices for the
\* same bins; the bin getValidBins returned is in both, and the emitted
\* track carries the covariance of the bin whose factor made its noise.
C16_FactorIffCovariance ==
    /\ [](/\ KeysOf(fSmearingMatrices) = KeysOf(fCovarianceMatrices)
          /\ pc = "smearing"
                => /\ Has2(fSmearingMatrices, bins[1], bins[2])
                   /\ Has2(fCovarianceMatrices, bins[1], bins[2]))
    /\ [][(pc = "smearing" /\ pc' = "loop")
          => LET out == fOutputArray'[Len(fOutputArray')]
                 noise == MatVec(fSmearingMatrices[bins[1]][bins[2]],
                                 [i \in Idx |-> fRandomGenerator[i + 1]])
             IN  /\ out.trkCov
                       = set_covariance(fCovarianceMatrices[bins[1]][bins[2]])
                 /\ \A i \in Idx \ {QOVERP} :
                       out.trkPar[i] = TrackParameters(track)[i] + noise[i]
                 /\ out.trkPar[QOVERP]
                       = RatAdd(TrackParameters(track)[QOVERP],
                                Rat(noise[QOVERP], QUnit))]_vars

C16_Witness ==
    /\ pc = "loop"
    /\ Len(fOutputArray) = 1
    /\ bins = <<4, 2>>
    /\ LltInfo(fCovarianceMatrices[4][2]) # -1
    /\ Has2(fSmearingMatrices, 4, 2)
    /\ fOutputArray[1].trkCov = set_covariance(fCovarianceMatrices[4][2])
    /\ fOutputArray[1].trkPar # TrackParameters(fOutputArray[1].Candidates[1])

\* the underlying tracks that occur in the secondary vertices of the jet
JetTracks ==
    UNION {{jet.secondaryVertices[v].tracks_along_jet[i].delphes_track :
               i \in 1..Len(jet.secondaryVertices[v].tracks_along_jet)} :
              v \in 1..Len(jet.secondaryVertices)}

\* the positions at which vertex v lists the underlying track c
PlacesIn(v, c) ==
    {i \in 1..Len(jet.secondaryVertices[v].tracks_along_jet) :
        jet.secondaryVertices[v].tracks_along_jet[i].delphes_track = c}

\* the last vertex of the jet that lists c, and c as that vertex lists it
LastVertexOf(c) ==
    CHOOSE v \in 1..Len(jet.secondaryVertices) :
        /\ PlacesIn(v, c) # {}
        /\ \A u \in (v + 1)..Len(jet.secondaryVertices) : PlacesIn(u, c) = {}

LastEntryOf(c) ==
    LET vx == jet.secondaryVertices[LastVertexOf(c)]
        i == CHOOSE i \in PlacesIn(LastVertexOf(c), c) :
                \A j \in PlacesIn(LastVertexOf(c), c) : i <= j
        tk == vx.tracks_along_jet[i]
    IN  [track |-> [d0 |-> tk.d0, weight |-> tk.weight],
         vertex |-> [mass |-> vx.mass]]

\* C18: the list returned for a jet holds, for every underlying track that
\* occurs in a secondary vertex, exactly one entry, made of the track as
\* the last vertex that lists it has it and of that vertex, and nothing
\* else; the list is in non-decreasing d0 order.
C18_SortedSecondaryTracks ==
    pc = "written"
    => LET out == secondary_vertex_tracks
       IN  /\ Len(out) = Cardinality(JetTracks)
           /\ \A x \in Range(out) \cup {LastEntryOf(c) : c \in JetTracks} :
                 Cardinality({k \in 1..Len(out) : out[k] = x})
                    = Cardinality({c \in JetTracks : LastEntryOf(c) = x})
           /\ \A k \in 1..(Len(out) - 1) : out[k].track.d0 <= out[k + 1].track.d0

C18_Witness ==
    /\ pc = "written"
    /\ Len(jet.secondaryVertices) = 2
    /\ PlacesIn(1, 1) # {} /\ PlacesIn(2, 1) # {} /\ PlacesIn(1, 2) # {}
    /\ jet.secondaryVertices[1].tracks_along_jet[1].delphes_track = 1
    /\ jet.secondaryVertices[1].tracks_along_jet[1].d0 = -1
    /\ LastEntryOf(1).track.d0 = 1
    /\ LastEntryOf(2).track.d0 = -1
    /\ Len(secondary_vertex_tracks) = 2
    /\ secondary_vertex_tracks[1] = LastEntryOf(2)
    /\ secondary_vertex_tracks[2] = LastEntryOf(1)
    /\ secondary_vertex_tracks[2].vertex.mass = 2

====
